---------------------------- MODULE Spec2Model ----------------------------
(***************************************************************************)
(* A model of steam_desktop_updater.py: the resumable appinfo.vdf reader   *)
(* (SteamInstallation.read_appinfo), the enumeration of installed apps,    *)
(* the game / installed filters (SteamApp.is_game, SteamApp.is_installed), *)
(* the desktop entry writer and the two icon containers (SteamIconZip,     *)
(* SteamIconICO) driven by create_desktop_data.                            *)
(*                                                                         *)
(* Conventions.  A Python str is a sequence of one-character strings.  A   *)
(* Python dict whose iteration order matters (the VDF mappings `common`    *)
(* and `launch`) is a sequence of <<key, value>> pairs with distinct keys, *)
(* in insertion order.  An operator that models a Python function returns  *)
(* a record whose field exc is "none" or the name of the exception that    *)
(* leaves the function.  Python runs with assertions enabled (no -O).      *)
(***************************************************************************)
EXTENDS Integers, Sequences, FiniteSets, TLC

VARIABLES
    stream,        \* records appcache.parse_appinfo yields, in file order
    cursor,        \* number of records the generator has yielded so far
    _appinfo,      \* SteamInstallation._appinfo: app id -> decoded record
    decoded,       \* per stream position, how often it has been yielded
    ret,           \* the last read_appinfo call: argument and outcome
    fs,            \* the files of the Steam root and library, per app id
    manifests,     \* app ids of the appmanifest_*.acf files, in glob order
    steam_apps,    \* list(steam.read_installed_apps()), built one by one
    pc,            \* position of create_desktop_data
    i,             \* index in steam_apps of the app being processed
    out,           \* destdir and the logging calls made: [applications, icons, log]
    exc            \* the exception that ended the run, or NoExc

vars == <<stream, cursor, _appinfo, decoded, ret, fs, manifests, steam_apps,
          pc, i, out, exc>>

---------------------------------------------------------------------------
(* Bounds of the model *)

MaxStream == 4
MaxLaunch == 3
MaxEntries == 3
MaxSizes == 3

---------------------------------------------------------------------------
(* Python values *)

\* str.lower(), on the letters the model uses
LowerChar(c) ==
    CASE c = "G" -> "g" [] c = "A" -> "a" [] c = "M" -> "m" [] c = "E" -> "e"
      [] c = "P" -> "p" [] c = "N" -> "n" [] c = "T" -> "t" [] c = "O" -> "o"
      [] c = "L" -> "l" [] OTHER -> c

lower(s) == [k \in 1..Len(s) |-> LowerChar(s[k])]

endswith(s, suffix) ==
    /\ Len(s) >= Len(suffix)
    /\ SubSeq(s, Len(s) - Len(suffix) + 1, Len(s)) = suffix

\* str.isdigit(): non-empty and every character has the Unicode property
\* Digit, which the decimal digits have and so does SUPERSCRIPT TWO ("sup2").
DecimalChars == {"0", "1", "2", "3", "4", "5", "6", "7", "8", "9"}
DigitChars == DecimalChars \cup {"sup2"}
isdigit(s) == Len(s) > 0 /\ \A k \in 1..Len(s) : s[k] \in DigitChars

\* dict operations on a sequence of <<key, value>> pairs
Keys(d) == {d[k][1] : k \in 1..Len(d)}
Has(d, key) == key \in Keys(d)
Get(d, key) == d[CHOOSE k \in 1..Len(d) : d[k][1] = key][2]

NoExc == "none"

\* open(path, 'wb').write(data): the file is created or replaced
WriteFile(files, path, data) ==
    [p \in DOMAIN files \cup {path} |-> IF p = path THEN data ELSE files[p]]

---------------------------------------------------------------------------
(* SteamInstallation.read_appinfo *)

\* A faulty variant: the scan caches only the record it was asked for.
RECURSIVE ScanFromSoughtOnly(_, _, _)
ScanFromSoughtOnly(cache, cur, app_id) ==
    IF cur >= Len(stream) THEN [cache |-> cache, cursor |-> cur]
    ELSE LET app_appinfo == stream[cur + 1]
         IN  IF app_appinfo.appid = app_id
             THEN [cache |-> IF app_id \notin DOMAIN cache
                             THEN cache @@ (app_id :> app_appinfo) ELSE cache,
                   cursor |-> cur + 1]
             ELSE ScanFromSoughtOnly(cache, cur + 1, app_id)

\* The for loop over self._appinfo_reader, resumed where it stopped: every
\* record read is cached unless its id already is, and the loop breaks after
\* the record of app_id.
RECURSIVE ScanFrom(_, _, _)
ScanFrom(cache, cur, app_id) ==
    IF cur >= Len(stream) THEN [cache |-> cache, cursor |-> cur]
    ELSE LET app_appinfo == stream[cur + 1]
             cache2 == IF app_appinfo.appid \notin DOMAIN cache
                       THEN cache @@ (app_appinfo.appid :> app_appinfo)
                       ELSE cache
         IN  IF app_appinfo.appid = app_id
             THEN [cache |-> cache2, cursor |-> cur + 1]
             ELSE ScanFrom(cache2, cur + 1, app_id)

\* A faulty variant: no test of the cache before the scan.
read_appinfo_always_scans(cache, cur, app_id) ==
    LET s == ScanFrom(cache, cur, app_id)
    IN  [cache |-> s.cache, cursor |-> s.cursor, app_id |-> app_id,
         hit |-> app_id \in DOMAIN cache,
         exc |-> IF app_id \in DOMAIN s.cache THEN NoExc ELSE "KeyError",
         value |-> IF app_id \in DOMAIN s.cache THEN <<s.cache[app_id]>> ELSE <<>>]

\* read_appinfo(app_id) from the state (cache, cur): the new cache and cursor,
\* whether the id was cached at the call (hit), and the record returned
\* (value, a sequence of length one) or the KeyError of self._appinfo[app_id].
read_appinfo(cache, cur, app_id) ==
    LET h == app_id \in DOMAIN cache
        s == IF h THEN [cache |-> cache, cursor |-> cur]
             ELSE ScanFrom(cache, cur, app_id)
    IN  [cache |-> s.cache, cursor |-> s.cursor, app_id |-> app_id, hit |-> h,
         exc |-> IF app_id \in DOMAIN s.cache THEN NoExc ELSE "KeyError",
         value |-> IF app_id \in DOMAIN s.cache THEN <<s.cache[app_id]>> ELSE <<>>]

\* The generator's yields between two cursors, counted per position
CountYields(d, from, to) ==
    [p \in DOMAIN d |-> IF p > from /\ p <= to THEN d[p] + 1 ELSE d[p]]

\* What a caller sees of a call
Outcome(r) == [app_id |-> r.app_id, hit |-> r.hit, exc |-> r.exc, value |-> r.value]

NoRet == [app_id |-> 0, hit |-> FALSE, exc |-> NoExc, value |-> <<>>]

---------------------------------------------------------------------------
(* SteamApp *)

icon_name(app_id) == [prefix |-> "steam_icon_", app_id |-> app_id]
desktop_name(app_id) == [prefix |-> "steam_app_", app_id |-> app_id]

Logged(o, msg, app_id, what) ==
    [o EXCEPT !.log = Append(@, [msg |-> msg, app |-> app_id, what |-> what])]

\* A Python function's outcome: the output state, the exception, the value
Result(o, e, v) == [out |-> o, exc |-> e, val |-> v]

GAME == <<"g", "a", "m", "e">>
WINDOWS == <<"w", "i", "n", "d", "o", "w", "s">>
DOT_PNG == <<".", "p", "n", "g">>

\* x in s, for two str
Contains(s, x) ==
    \E k \in 1..(Len(s) - Len(x) + 1) : SubSeq(s, k, k + Len(x) - 1) = x

\* SteamApp.is_game
is_game(app_info) ==
    IF "common" \in DOMAIN app_info
    THEN IF ~Has(app_info.common, "type") THEN [exc |-> "KeyError", val |-> FALSE]
         ELSE [exc |-> NoExc, val |-> lower(Get(app_info.common, "type")) = GAME]
    ELSE [exc |-> NoExc, val |-> FALSE]

\* The parts of a relative path: PureWindowsPath splits at both separators,
\* PurePosixPath at "/" alone, where a backslash is a character of a name.
RECURSIVE Split(_, _, _, _)
Split(s, k, seps, part) ==
    IF k > Len(s) THEN (IF part = <<>> THEN <<>> ELSE <<part>>)
    ELSE IF s[k] \in seps
         THEN (IF part = <<>> THEN <<>> ELSE <<part>>) \o Split(s, k + 1, seps, <<>>)
         ELSE Split(s, k + 1, seps, Append(part, s[k]))

PureWindowsPath(s) == Split(s, 1, {"\\", "/"}, <<>>)
PurePosixPath(s) == Split(s, 1, {"/"}, <<>>)

\* launch['config']['oslist'] with its KeyError caught
is_windows(launch) ==
    IF "config" \in DOMAIN launch /\ "oslist" \in DOMAIN launch.config
    THEN Contains(launch.config.oslist, WINDOWS)
    ELSE TRUE

\* app_dir / path_cls(launch['executable']), relative to app_dir
bin_path(launch) ==
    IF is_windows(launch) THEN PureWindowsPath(launch.executable)
    ELSE PurePosixPath(launch.executable)

\* The loop over app_info['config']['launch'].items(), from its k-th item
RECURSIVE LaunchLoop(_, _, _)
LaunchLoop(launch_items, k, files) ==
    IF k > Len(launch_items) THEN [exc |-> NoExc, val |-> FALSE]
    ELSE IF ~isdigit(launch_items[k][1])
         THEN [exc |-> "AssertionError", val |-> FALSE]
         ELSE IF "executable" \notin DOMAIN launch_items[k][2]
              THEN [exc |-> "KeyError", val |-> FALSE]
              ELSE IF bin_path(launch_items[k][2]) \in files
                   THEN [exc |-> NoExc, val |-> TRUE]
                   ELSE LaunchLoop(launch_items, k + 1, files)

\* A faulty variant: the launch keys are checked whether or not the directory exists.
is_installed_checks_keys_first(app_info, world) ==
    IF "config" \notin DOMAIN app_info THEN [exc |-> "KeyError", val |-> FALSE]
    ELSE LET r == LaunchLoop(app_info.config.launch, 1, world.files)
         IN  IF world.is_dir \/ r.exc # NoExc THEN r
             ELSE [exc |-> NoExc, val |-> FALSE]

\* SteamApp.is_installed; world is what the library holds at
\* steamapps/common/<installdir>: whether it is a directory, and its files.
is_installed(app_info, world) ==
    IF "config" \notin DOMAIN app_info THEN [exc |-> "KeyError", val |-> FALSE]
    ELSE IF world.is_dir
         THEN LaunchLoop(app_info.config.launch, 1, world.files)
         ELSE [exc |-> NoExc, val |-> FALSE]

DEFAULT_STEAM_CMD == "xdg-open"

\* SteamApp.get_desktop_entry (called with a common section that has a name)
get_desktop_entry(app, steam_cmd) ==
    [Type |-> "Application",
     Name |-> Get(app.app_info.common, "name"),
     Comment |-> "Launch this game via Steam",
     Exec |-> [cmd |-> steam_cmd, url |-> "steam://rungameid/", app_id |-> app.app_id],
     Icon |-> icon_name(app.app_id),
     Categories |-> "Game;X-Steam;"]

\* SteamApp.save_desktop_entry
save_desktop_entry(app, o, steam_cmd) ==
    IF ~Has(app.app_info.common, "name") THEN Result(o, "KeyError", FALSE)
    ELSE Result([o EXCEPT !.applications =
                    WriteFile(@, desktop_name(app.app_id),
                              get_desktop_entry(app, steam_cmd))],
                NoExc, TRUE)

---------------------------------------------------------------------------
(* SteamIconContainer and its two kinds *)

\* SteamIconContainer.get_dest: icons/hicolor/<size>x<size>/apps/<icon_name>.png
get_dest(name, size) ==
    [theme |-> "icons/hicolor", width |-> size, height |-> size, icon |-> name]

\* A faulty variant: a destination that exists is kept.
WriteIconKeepFirst(o, name, size, data) ==
    IF get_dest(name, size) \in DOMAIN o.icons THEN o
    ELSE [o EXCEPT !.icons = WriteFile(@, get_dest(name, size), data)]

WriteIcon(o, name, size, data) ==
    [o EXCEPT !.icons = WriteFile(@, get_dest(name, size), data)]

\* SteamIconZip.extract, from the k-th member of infolist()
RECURSIVE ZipLoop(_, _, _, _)
ZipLoop(infolist, k, app_id, o) ==
    IF k > Len(infolist) THEN Result(o, NoExc, TRUE)
    ELSE LET zi == infolist[k]
         IN  IF zi.is_dir \/ ~endswith(lower(zi.filename), DOT_PNG)
             THEN ZipLoop(infolist, k + 1, app_id, o)
             ELSE IF zi.oserror
                  THEN ZipLoop(infolist, k + 1, app_id,
                               Logged(o, "warning: cannot identify image", app_id, "zip"))
                  ELSE IF zi.size[1] # zi.size[2] THEN Result(o, "AssertionError", FALSE)
                  ELSE IF zi.format # "PNG" THEN Result(o, "AssertionError", FALSE)
                  ELSE ZipLoop(infolist, k + 1, app_id,
                               WriteIcon(o, icon_name(app_id), zi.size[1],
                                         [encoded |-> "as stored", content |-> zi.bytes]))

SteamIconZip_extract(file, app_id, o) == ZipLoop(file.infolist, 1, app_id, o)

\* A faulty variant: the file is named after the size the container declares.
RECURSIVE IcoLoopDeclared(_, _, _, _)
IcoLoopDeclared(sizes, k, app_id, o) ==
    IF k > Len(sizes) THEN Result(o, NoExc, TRUE)
    ELSE LET subimg == sizes[k].subimg
         IN  IF subimg.size[1] # subimg.size[2] THEN Result(o, "AssertionError", FALSE)
             ELSE IcoLoopDeclared(sizes, k + 1, app_id,
                      WriteIcon(o, icon_name(app_id), sizes[k].size[1],
                                [encoded |-> "saved as PNG", content |-> subimg.pixels]))

\* The loop of SteamIconICO.extract over self.file.ico.sizes(), from the k-th
RECURSIVE IcoLoop(_, _, _, _)
IcoLoop(sizes, k, app_id, o) ==
    IF k > Len(sizes) THEN Result(o, NoExc, TRUE)
    ELSE LET subimg == sizes[k].subimg
             o1 == IF subimg.size # sizes[k].size
                   THEN Logged(o, "warning: expected size", app_id, "ico") ELSE o
         IN  IF subimg.size[1] # subimg.size[2] THEN Result(o, "AssertionError", FALSE)
             ELSE IcoLoop(sizes, k + 1, app_id,
                          WriteIcon(o1, icon_name(app_id), subimg.size[1],
                                    [encoded |-> "saved as PNG", content |-> subimg.pixels]))

SteamIconICO_extract(file, app_id, o) ==
    IF file.format # "ICO" THEN Result(o, "AssertionError", FALSE)
    ELSE IcoLoop(file.sizes, 1, app_id, o)

\* The (icon_kind, icon_ext, container) list of get_icon_files
ICON_KINDS ==
    << [icon_kind |-> "linuxclienticon", icon_ext |-> "zip"],
       [icon_kind |-> "clienticon", icon_ext |-> "ico"] >>

RECURSIVE IconFilesLoop(_, _, _, _)
IconFilesLoop(kinds, k, common_info, games) ==
    IF k > Len(kinds) THEN <<>>
    ELSE (IF Has(common_info, kinds[k].icon_kind) /\ games[kinds[k].icon_ext].is_file
          THEN <<[icon_ext |-> kinds[k].icon_ext, file |-> games[kinds[k].icon_ext]]>>
          ELSE <<>>)
         \o IconFilesLoop(kinds, k + 1, common_info, games)

\* The icon kinds in the order the metadata lists their keys
KindsOfKeys(common_info) ==
    LET kindOf(key) == CHOOSE n \in 1..Len(ICON_KINDS) : ICON_KINDS[n].icon_kind = key
        iconKeys == SelectSeq([k \in 1..Len(common_info) |-> common_info[k][1]],
                              LAMBDA key : \E n \in 1..Len(ICON_KINDS) :
                                               ICON_KINDS[n].icon_kind = key)
    IN  [k \in 1..Len(iconKeys) |-> ICON_KINDS[kindOf(iconKeys[k])]]

\* A faulty variant: the containers come in the order of the metadata's keys.
get_icon_files_in_key_order(common_info, games) ==
    IconFilesLoop(KindsOfKeys(common_info), 1, common_info, games)

\* SteamApp.get_icon_files; games is what steam/games holds under the hashes
\* the app's metadata names: games.zip is <hash>.zip, games.ico is <hash>.ico.
get_icon_files(common_info, games) ==
    IconFilesLoop(ICON_KINDS, 1, common_info, games)

\* with icon_file: __enter__ raises SteamIconReadError from BadZipFile / OSError
EnterRaises(container) == container.file.unreadable

Extract(container, app_id, o) ==
    IF container.icon_ext = "zip" THEN SteamIconZip_extract(container.file, app_id, o)
    ELSE SteamIconICO_extract(container.file, app_id, o)

\* The loop of SteamApp.extract_icons, from the k-th container
RECURSIVE ExtractLoop(_, _, _, _)
ExtractLoop(icon_files, k, app_id, o) ==
    IF k > Len(icon_files)
    THEN Result(Logged(o, "warning: No usable icons found", app_id, "-"), NoExc, FALSE)
    ELSE LET o1 == Logged(o, "info: Extracting icon(s)", app_id, icon_files[k].icon_ext)
         IN  IF EnterRaises(icon_files[k])
             THEN ExtractLoop(icon_files, k + 1, app_id,
                      Logged(o1, "error: Failed to read Steam icon container",
                             app_id, icon_files[k].icon_ext))
             ELSE Extract(icon_files[k], app_id, o1)

\* SteamApp.extract_icons
extract_icons(app, world, o) ==
    ExtractLoop(get_icon_files(app.app_info.common, world.games), 1, app.app_id, o)

---------------------------------------------------------------------------
(* create_desktop_data *)

NoError == [type |-> NoExc, at |-> "-"]

Raised(o, type, at) == [out |-> o, exc |-> [type |-> type, at |-> at]]

\* The body of the loop over steam_apps, for one app
process_app(app, world, o) ==
    LET game == is_game(app.app_info)
    IN  IF game.exc # NoExc THEN Raised(o, game.exc, "is_game")
        ELSE IF ~game.val THEN Raised(o, NoExc, "-")
        ELSE LET installed == is_installed(app.app_info, world)
             IN  IF installed.exc # NoExc THEN Raised(o, installed.exc, "is_installed")
                 ELSE IF ~installed.val THEN Raised(o, NoExc, "-")
                 ELSE IF ~Has(app.app_info.common, "name")
                      THEN Raised(o, "KeyError", "name")
                      ELSE LET o1 == Logged(o, "info: Processing app ID", app.app_id, "-")
                               saved == save_desktop_entry(app, o1, DEFAULT_STEAM_CMD)
                               icons == extract_icons(app, world, saved.out)
                           IN  IF saved.exc # NoExc
                               THEN Raised(saved.out, saved.exc, "save_desktop_entry")
                               ELSE IF icons.exc # NoExc
                                    THEN Raised(icons.out, icons.exc, "extract_icons")
                                    ELSE Raised(icons.out, NoExc, "-")

\* One step of list(steam.read_installed_apps()): the next manifest is read,
\* its app id looked up, and a SteamApp yielded; after the last one the
\* with block is left and the loop over steam_apps begins.
ReadInstalledApp ==
    /\ pc = "enumerate"
    /\ LET k == Len(steam_apps) + 1
           r == read_appinfo(_appinfo, cursor, manifests[k])
       IN  /\ _appinfo' = r.cache
           /\ cursor' = r.cursor
           /\ decoded' = CountYields(decoded, cursor, r.cursor)
           /\ ret' = Outcome(r)
           /\ IF r.exc # NoExc
              THEN /\ pc' = "aborted"
                   /\ exc' = [type |-> r.exc, at |-> "read_appinfo"]
                   /\ UNCHANGED steam_apps
              ELSE /\ steam_apps' = Append(steam_apps,
                                           [app_id |-> manifests[k],
                                            app_info |-> r.value[1].data.appinfo])
                   /\ pc' = IF k = Len(manifests) THEN "process" ELSE "enumerate"
                   /\ UNCHANGED exc
    /\ UNCHANGED <<stream, fs, manifests, i, out>>

\* One iteration of the loop over steam_apps
ProcessApp ==
    /\ pc = "process"
    /\ LET app == steam_apps[i]
           r == process_app(app, fs[app.app_id], out)
       IN  /\ out' = r.out
           /\ exc' = r.exc
           /\ IF r.exc.type # NoExc
              THEN pc' = "aborted" /\ UNCHANGED i
              ELSE /\ i' = i + 1
                   /\ pc' = IF i = Len(steam_apps) THEN "done" ELSE "process"
    /\ UNCHANGED <<stream, cursor, _appinfo, decoded, ret, fs, manifests, steam_apps>>

Next == ReadInstalledApp \/ ProcessApp

\* A call of read_appinfo on an open SteamInstallation
Lookup(app_id) ==
    /\ pc = "open"
    /\ LET r == read_appinfo(_appinfo, cursor, app_id)
       IN  /\ _appinfo' = r.cache
           /\ cursor' = r.cursor
           /\ decoded' = CountYields(decoded, cursor, r.cursor)
           /\ ret' = Outcome(r)
    /\ UNCHANGED <<stream, fs, manifests, steam_apps, pc, i, out, exc>>

---------------------------------------------------------------------------
(* The inputs *)

\* The dicts of at most n items with keys in K and values in V, in every order
RECURSIVE Dicts(_, _, _)
Dicts(K, V, n) ==
    IF n = 0 THEN {<<>>}
    ELSE LET shorter == Dicts(K, V, n - 1)
         IN  shorter \cup
             UNION {{Append(d, <<key, v>>) : key \in K \ Keys(d), v \in V} :
                    d \in {p \in shorter : Len(p) = n - 1}}

\* The sequences of at most n elements of S
RECURSIVE SeqsUpTo(_, _)
SeqsUpTo(S, n) ==
    IF n = 0 THEN {<<>>}
    ELSE LET shorter == SeqsUpTo(S, n - 1)
         IN  shorter \cup {Append(q, x) : q \in {p \in shorter : Len(p) = n - 1}, x \in S}

\* Metadata: the common section
ICON_HASH(icon_kind) == IF icon_kind = "linuxclienticon" THEN "a1b2c3" ELSE "d4e5f6"

Common(names, types, icon_keys) ==
    [k \in 1..Len(names) |-> <<"name", names[k]>>]
    \o [k \in 1..Len(types) |-> <<"type", types[k]>>]
    \o [k \in 1..Len(icon_keys) |-> <<icon_keys[k], ICON_HASH(icon_keys[k])>>]

\* Metadata: launch entries.  "g" names <app_dir>/g in either path class;
\* "b\g" names <app_dir>/b/g as a Windows path and the file called b\g
\* as a POSIX path.
LINUX == <<"l", "i", "n", "u", "x">>
EXE_G == <<"g">>
EXE_B_G == <<"b", "\\", "g">>

Launches ==
    { [executable |-> EXE_G],
      [executable |-> EXE_B_G],
      [executable |-> EXE_B_G, config |-> [oslist |-> LINUX]],
      [executable |-> EXE_B_G, config |-> [oslist |-> WINDOWS]] }

LaunchKeys == { <<"0">>, <<"x">>, <<"sup2">> }

Config(launch) == [installdir |-> "Foo", launch |-> launch]

\* The library: steamapps/common/Foo
InstallDirs ==
    { [is_dir |-> FALSE, files |-> {}] }
    \cup { [is_dir |-> TRUE, files |-> f] :
             f \in { {}, {<< <<"g">> >>}, {<< <<"b">>, <<"g">> >>},
                     {<< <<"b", "\\", "g">> >>} } }

\* steam/games: the members of a zip container
PNG_NAME == <<"i", ".", "p", "n", "g">>
PNG_NAME_UPPER == <<"I", ".", "P", "N", "G">>

Member(filename, is_dir, oserror, format, size, bytes) ==
    [filename |-> filename, is_dir |-> is_dir, oserror |-> oserror,
     format |-> format, size |-> size, bytes |-> bytes]

ZipMembers ==
    { Member(<<"d", "/">>, TRUE, FALSE, "-", <<0, 0>>, ""),
      Member(<<"r", ".", "t", "x", "t">>, FALSE, FALSE, "-", <<0, 0>>, "text"),
      Member(PNG_NAME, FALSE, TRUE, "-", <<0, 0>>, "junk"),
      Member(PNG_NAME_UPPER, FALSE, FALSE, "GIF", <<32, 32>>, "gif32"),
      Member(PNG_NAME, FALSE, FALSE, "PNG", <<32, 16>>, "png32x16"),
      Member(PNG_NAME, FALSE, FALSE, "PNG", <<32, 32>>, "png32"),
      Member(PNG_NAME_UPPER, FALSE, FALSE, "PNG", <<32, 32>>, "png32bis"),
      Member(PNG_NAME, FALSE, FALSE, "PNG", <<128, 128>>, "png128") }

ZipFile(infolist) == [is_file |-> TRUE, unreadable |-> FALSE, infolist |-> infolist]
BadZipFile == [is_file |-> TRUE, unreadable |-> TRUE, infolist |-> <<>>]
NoZipFile == [is_file |-> FALSE, unreadable |-> FALSE, infolist |-> <<>>]
GoodZipFile == ZipFile(<<Member(PNG_NAME, FALSE, FALSE, "PNG", <<32, 32>>, "png32")>>)

\* steam/games: the sizes an ICO file declares, each with the sub-image
\* getimage returns for it
DeclaredSides == {16, 32, 48}

SubImages(side) ==
    { [size |-> <<side, side>>, pixels |-> "as declared"],
      [size |-> <<64, 64>>, pixels |-> "larger"],
      [size |-> <<32, 16>>, pixels |-> "not square"] }

\* ico.sizes() is a set of distinct sizes, iterated in some order
RECURSIVE IcoSizes(_)
IcoSizes(n) ==
    IF n = 0 THEN {<<>>}
    ELSE LET shorter == IcoSizes(n - 1)
         IN  shorter \cup
             UNION {{Append(d[1], [size |-> <<d[2], d[2]>>, subimg |-> img]) :
                        img \in SubImages(d[2])} :
                    d \in {p \in shorter \X DeclaredSides :
                             /\ Len(p[1]) = n - 1
                             /\ \A k \in 1..Len(p[1]) : p[1][k].size # <<p[2], p[2]>>}}

IcoFile(format, sizes) ==
    [is_file |-> TRUE, unreadable |-> FALSE, format |-> format, sizes |-> sizes]
BadIcoFile == [is_file |-> TRUE, unreadable |-> TRUE, format |-> "-", sizes |-> <<>>]
NoIcoFile == [is_file |-> FALSE, unreadable |-> FALSE, format |-> "-", sizes |-> <<>>]
GoodIcoFile ==
    IcoFile("ICO", <<[size |-> <<16, 16>>,
                      subimg |-> [size |-> <<16, 16>>, pixels |-> "as declared"]]>>)

World(dir, zip, ico) ==
    [is_dir |-> dir.is_dir, files |-> dir.files, games |-> [zip |-> zip, ico |-> ico]]

\* An installed game with a zip icon: the app every family varies
GoodCommon == Common(<<"Foo">>, <<GAME>>, <<"linuxclienticon">>)
GoodConfig == Config(<< <<<<"0">>, [executable |-> EXE_G]>> >>)
GoodDir == [is_dir |-> TRUE, files |-> {<< <<"g">> >>}]
GoodWorld == World(GoodDir, GoodZipFile, NoIcoFile)
GoodApp == [info |-> [common |-> GoodCommon, config |-> GoodConfig], world |-> GoodWorld]

\* Apps that differ in their category
CategoryApps ==
    { [info |-> inf, world |-> GoodWorld] :
        inf \in { [config |-> GoodConfig],
                  [extended |-> "-"],
                  [common |-> Common(<<"Foo">>, <<>>, <<>>), config |-> GoodConfig],
                  [common |-> Common(<<"Foo">>, <<<<"G", "a", "m", "e">>>>, <<>>),
                   config |-> GoodConfig],
                  [common |-> Common(<<"Foo">>, <<<<"T", "o", "o", "l">>>>, <<>>),
                   config |-> GoodConfig],
                  [common |-> Common(<<"Foo">>, <<<<"t", "o", "o", "l">>>>,
                                     <<"linuxclienticon">>),
                   config |-> GoodConfig] } }

\* Games that differ in their launch entries and install directory
LaunchApps ==
    { [info |-> [common |-> GoodCommon, config |-> Config(launch)],
       world |-> World(dir, GoodZipFile, NoIcoFile)] :
        launch \in Dicts(LaunchKeys, Launches, MaxLaunch), dir \in InstallDirs }

IconKeyOrders(first) ==
    { <<first>>, <<"linuxclienticon", "clienticon">>, <<"clienticon", "linuxclienticon">> }

InstalledGame(icon_keys, zip, ico) ==
    [info |-> [common |-> Common(<<"Foo">>, <<GAME>>, icon_keys), config |-> GoodConfig],
     world |-> World(GoodDir, zip, ico)]

\* Installed games that differ in their zip container
ZipApps ==
    { InstalledGame(keys, ZipFile(infolist),
                    IF Has(Common(<<>>, <<>>, keys), "clienticon")
                    THEN GoodIcoFile ELSE NoIcoFile) :
        keys \in IconKeyOrders("linuxclienticon"),
        infolist \in SeqsUpTo(ZipMembers, MaxEntries) }

\* Installed games that differ in their ICO container
IcoApps ==
    UNION { { InstalledGame(keys, zip, ico) :
                zip \in IF Len(keys) = 1 THEN {NoZipFile}
                        ELSE {NoZipFile, BadZipFile, ZipFile(<<>>), GoodZipFile} } :
            keys \in IconKeyOrders("clienticon"),
            ico \in {IcoFile("ICO", sizes) : sizes \in IcoSizes(MaxSizes)}
                    \cup {BadIcoFile, IcoFile("PNG", <<>>)} }

Apps == CategoryApps \cup LaunchApps \cup ZipApps \cup IcoApps

\* appinfo.vdf holds app 1, or apps 1 and 2; the manifests name either or both
Catalogs == {<<a>> : a \in Apps} \cup {<<a, GoodApp>> : a \in Apps}
ManifestLists == { <<1>>, <<2>>, <<1, 2>>, <<2, 1>> }

NoOutput == [applications |-> <<>>, icons |-> <<>>, log |-> <<>>]

Init ==
    \E catalog \in Catalogs, m \in ManifestLists :
        /\ stream = [k \in 1..Len(catalog) |->
                        [appid |-> k, data |-> [appinfo |-> catalog[k].info]]]
        /\ fs = [k \in 1..Len(catalog) |-> catalog[k].world]
        /\ manifests = m
        /\ cursor = 0
        /\ _appinfo = <<>>
        /\ decoded = [k \in 1..Len(catalog) |-> 0]
        /\ ret = NoRet
        /\ steam_apps = <<>>
        /\ pc = "enumerate"
        /\ i = 1
        /\ out = NoOutput
        /\ exc = NoError

Spec == Init /\ [][Next]_vars

\* appinfo.vdf alone: any records, ids repeated or missing, and any lookups
LookupIds == {1, 2, 3}

AppinfoRecords ==
    { [appid |-> id, data |-> [appinfo |-> inf]] :
        id \in LookupIds, inf \in {[extended |-> "first"], [extended |-> "second"]} }

InitAppinfo ==
    /\ stream \in SeqsUpTo(AppinfoRecords, MaxStream)
    /\ cursor = 0
    /\ _appinfo = <<>>
    /\ decoded = [k \in 1..Len(stream) |-> 0]
    /\ ret = NoRet
    /\ fs = <<>>
    /\ manifests = <<>>
    /\ steam_apps = <<>>
    /\ pc = "open"
    /\ i = 1
    /\ out = NoOutput
    /\ exc = NoError

NextAppinfo == \E app_id \in LookupIds : Lookup(app_id)

SpecAppinfo == InitAppinfo /\ [][NextAppinfo]_vars

---------------------------------------------------------------------------
(* What the claims speak of *)

Ended == pc \in {"done", "aborted"}

Positions == 1..Len(steam_apps)

\* The loop over steam_apps has begun the iteration of its k-th app
Reached(k) ==
    /\ pc \in {"process", "done", "aborted"}
    /\ exc.at # "read_appinfo"
    /\ k < i \/ (k = i /\ pc = "aborted")

\* ... and an exception left that iteration
AbortedAt(k) == pc = "aborted" /\ exc.at # "read_appinfo" /\ k = i

\* ... or the iteration ran to its end
Finished(k) == Reached(k) /\ ~AbortedAt(k)

InfoOf(k) == steam_apps[k].app_info
IdOf(k) == steam_apps[k].app_id
WorldOf(k) == fs[IdOf(k)]

HasEntry(app_id) == desktop_name(app_id) \in DOMAIN out.applications
IconsOf(app_id) == {p \in DOMAIN out.icons : p.icon = icon_name(app_id)}
LogOf(app_id) == SelectSeq(out.log, LAMBDA e : e.app = app_id)

\* The containers extract_icons tried to open for the app, in order
Opened(app_id) ==
    LET tries == SelectSeq(LogOf(app_id), LAMBDA e : e.msg = "info: Extracting icon(s)")
    IN  [n \in 1..Len(tries) |-> tries[n].what]

\* extract_icons was entered for the app
Attempted(app_id) ==
    \E n \in 1..Len(out.log) :
        /\ out.log[n].app = app_id
        /\ out.log[n].msg \in {"info: Extracting icon(s)", "warning: No usable icons found"}

\* The metadata says game, and some launch entry names a file that exists
CategoryIsGame(info) ==
    /\ "common" \in DOMAIN info
    /\ Has(info.common, "type")
    /\ lower(Get(info.common, "type")) = GAME

SomeExecutableExists(info, world) ==
    /\ "config" \in DOMAIN info
    /\ \E n \in 1..Len(info.config.launch) :
          /\ "executable" \in DOMAIN info.config.launch[n][2]
          /\ bin_path(info.config.launch[n][2]) \in world.files

LacksCategory(info) == "common" \notin DOMAIN info \/ ~Has(info.common, "type")

NonDigitKeys(info) ==
    {n \in 1..Len(info.config.launch) : ~isdigit(info.config.launch[n][1])}

NonDecimalKeys(info) ==
    {n \in 1..Len(info.config.launch) :
        LET key == info.config.launch[n][1]
        IN  ~(Len(key) > 0 /\ \A c \in 1..Len(key) : key[c] \in DecimalChars)}

\* A member of a zip container that is a square PNG image under a .png name
SquarePng(zi) ==
    /\ ~zi.is_dir
    /\ endswith(lower(zi.filename), DOT_PNG)
    /\ ~zi.oserror
    /\ zi.format = "PNG"
    /\ zi.size[1] = zi.size[2]

\* extract_icons opened the app's zip container
ZipOpened(k) ==
    /\ Reached(k)
    /\ \E n \in 1..Len(Opened(IdOf(k))) : Opened(IdOf(k))[n] = "zip"
    /\ ~WorldOf(k).games.zip.unreadable

IcoOpened(k) ==
    /\ Reached(k)
    /\ \E n \in 1..Len(Opened(IdOf(k))) : Opened(IdOf(k))[n] = "ico"
    /\ ~WorldOf(k).games.ico.unreadable

---------------------------------------------------------------------------
(* C1, C2: read_appinfo *)

FirstPosition(app_id) ==
    CHOOSE p \in 1..Len(stream) :
        /\ stream[p].appid = app_id
        /\ \A q \in 1..(p - 1) : stream[q].appid # app_id

Occurs(app_id) == \E p \in 1..Len(stream) : stream[p].appid = app_id

\* C1: a lookup of an id that occurs anywhere in the stream returns the
\* record of that id (its first occurrence), whatever was looked up before
\* and wherever the cursor stands; a lookup of an id that occurs nowhere
\* raises KeyError.
C1_LookupFindsRecord ==
    ret.app_id # 0 =>
        IF Occurs(ret.app_id)
        THEN ret.exc = NoExc /\ ret.value = <<stream[FirstPosition(ret.app_id)]>>
        ELSE ret.exc = "KeyError" /\ ret.value = <<>>

\* A lookup was served a record that lies before the cursor, the cursor
\* standing after the record of another id
C1_Witness ==
    /\ pc = "open"
    /\ ret.hit /\ ret.exc = NoExc
    /\ cursor > FirstPosition(ret.app_id)
    /\ stream[cursor].appid # ret.app_id
    /\ ret.value = <<stream[FirstPosition(ret.app_id)]>>

\* C2: a lookup of a cached id leaves the cursor, the cache and the count of
\* yields as they were; no lookup removes or replaces a cached record; no
\* stream position is yielded twice.
C2_CachedLookupReadsNothing ==
    [][ /\ ret'.app_id \in DOMAIN _appinfo =>
              cursor' = cursor /\ _appinfo' = _appinfo /\ decoded' = decoded
        /\ \A id \in DOMAIN _appinfo :
              id \in DOMAIN _appinfo' /\ _appinfo'[id] = _appinfo[id]
        /\ \A p \in DOMAIN decoded' : decoded'[p] <= 1 ]_vars

\* A lookup was a cache hit with records still unread, and the stream holds
\* a second, different record of a cached id before the cursor
C2_Witness ==
    /\ pc = "open"
    /\ ret.hit
    /\ cursor < Len(stream)
    /\ \E p, q \in 1..cursor :
          /\ p < q
          /\ stream[p].appid = stream[q].appid
          /\ stream[p] # stream[q]
          /\ _appinfo[stream[p].appid] = stream[p]

---------------------------------------------------------------------------
(* C3, C6, C7: create_desktop_data *)

\* The icon handling of the k-th app met a failure of its own: a container
\* that cannot be opened, a .png member of the zip container that does not
\* decode, is not square or is not a PNG image, or a sub-image of the ICO
\* container that is not square.
IconFailure(k) ==
    LET games == WorldOf(k).games
        tried == Opened(IdOf(k))
    IN  /\ Reached(k)
        /\ \/ \E n \in 1..Len(tried) : games[tried[n]].unreadable
           \/ /\ ZipOpened(k)
              /\ \E n \in 1..Len(games.zip.infolist) :
                    LET zi == games.zip.infolist[n]
                    IN  /\ ~zi.is_dir /\ endswith(lower(zi.filename), DOT_PNG)
                        /\ ~SquarePng(zi)
           \/ /\ IcoOpened(k)
              /\ games.ico.format = "ICO"
              /\ \E n \in 1..Len(games.ico.sizes) :
                    games.ico.sizes[n].subimg.size[1] # games.ico.sizes[n].subimg.size[2]

\* C3 (as claimed): when the run has ended, every installed game that comes
\* after an app whose icon handling failed has its desktop entry and had its
\* icon extraction attempted.
C3_IconFailureNeverAborts ==
    Ended =>
        \A k, j \in Positions :
            (k < j /\ IconFailure(k)
               /\ CategoryIsGame(InfoOf(j)) /\ SomeExecutableExists(InfoOf(j), WorldOf(j)))
            => HasEntry(IdOf(j)) /\ Attempted(IdOf(j))

\* C6 (as claimed): an enumerated app without a category has no desktop
\* entry and no icon, and its iteration ends without an exception.
C6_NoCategoryIsSkipped ==
    \A k \in Positions :
        LacksCategory(InfoOf(k)) =>
            /\ ~HasEntry(IdOf(k))
            /\ IconsOf(IdOf(k)) = {}
            /\ ~AbortedAt(k)

\* C7 (as claimed, for metadata whose launch keys are all digit strings):
\* when the run has ended, an enumerated app has a desktop entry exactly if
\* it is a game with an existing launch executable, and no other app has an
\* icon.
C7_EntryIffInstalledGame ==
    (Ended /\ pc # "enumerate" /\ exc.at # "read_appinfo"
       /\ \A k \in Positions :
             "config" \in DOMAIN InfoOf(k) => NonDigitKeys(InfoOf(k)) = {})
    => \A k \in Positions :
          LET qualifies == /\ CategoryIsGame(InfoOf(k))
                           /\ SomeExecutableExists(InfoOf(k), WorldOf(k))
          IN  /\ HasEntry(IdOf(k)) <=> qualifies
              /\ ~qualifies => IconsOf(IdOf(k)) = {}

---------------------------------------------------------------------------
(* C4, C10: SteamIconZip.extract *)

ZipExtracted(k) == ZipOpened(k) /\ Finished(k)

\* The members of the k-th app's zip container written at side length n
WrittenAt(k, n) ==
    LET infolist == WorldOf(k).games.zip.infolist
    IN  {m \in 1..Len(infolist) : SquarePng(infolist[m]) /\ infolist[m].size[1] = n}

IconContent(k, n) == out.icons[get_dest(icon_name(IdOf(k)), n)].content

---------------------------------------------------------------------------
(* C5: SteamApp.get_icon_files / SteamApp.extract_icons *)

ZipFileExists(k) ==
    Has(InfoOf(k).common, "linuxclienticon") /\ WorldOf(k).games.zip.is_file

IcoFileExists(k) ==
    Has(InfoOf(k).common, "clienticon") /\ WorldOf(k).games.ico.is_file

---------------------------------------------------------------------------
(* C8: SteamIconICO.extract *)

DeclaredBy(k) ==
    {WorldOf(k).games.ico.sizes[n].size[1] : n \in 1..Len(WorldOf(k).games.ico.sizes)}

\* C8 (as claimed): a file written from an ICO container is at a resolution
\* the container declares.
C8_ResolutionsAreDeclared ==
    \A k \in Positions :
        IcoOpened(k) => \A p \in IconsOf(IdOf(k)) : p.width \in DeclaredBy(k)

\* C8 (amended): a file written from an ICO container is at the side length
\* of a square sub-image the container returned for one of its declared
\* sizes, and holds that sub-image; so it is at a declared size whenever
\* every sub-image has the size it is declared under.  No file is written
\* for a sub-image that is not square.
C8_ResolutionsAreActualSizes ==
    \A k \in Positions :
        IcoOpened(k) =>
            LET sizes == WorldOf(k).games.ico.sizes
            IN  /\ \A p \in IconsOf(IdOf(k)) :
                      /\ p.width = p.height
                      /\ \E n \in 1..Len(sizes) :
                            /\ sizes[n].subimg.size = <<p.width, p.width>>
                            /\ out.icons[p] = [encoded |-> "saved as PNG",
                                               content |-> sizes[n].subimg.pixels]
                /\ (\A n \in 1..Len(sizes) : sizes[n].subimg.size = sizes[n].size)
                      => \A p \in IconsOf(IdOf(k)) : p.width \in DeclaredBy(k)
                /\ Finished(k) =>
                      \A n \in 1..Len(sizes) :
                          get_dest(icon_name(IdOf(k)), sizes[n].subimg.size[1])
                              \in DOMAIN out.icons

\* An ICO container was extracted whose sub-image for a declared size has
\* another size, and the file is at that other size
C8_Witness ==
    \E k \in Positions :
        /\ IcoOpened(k) /\ Finished(k)
        /\ \E p \in IconsOf(IdOf(k)) : p.width \notin DeclaredBy(k)

---------------------------------------------------------------------------
(* C9: SteamApp.is_installed *)

\* is_installed was called for the k-th app
InstalledChecked(k) ==
    /\ Reached(k)
    /\ CategoryIsGame(InfoOf(k))
    /\ "config" \in DOMAIN InfoOf(k)

AssertionFailedAt(k) ==
    AbortedAt(k) /\ exc = [type |-> "AssertionError", at |-> "is_installed"]

\* C9 (as claimed): the check of a game with a launch key that is not a
\* decimal-digit string ends the run.
C9_NonDigitKeyAlwaysAborts ==
    \A k \in Positions :
        (InstalledChecked(k) /\ NonDecimalKeys(InfoOf(k)) # {}) => AssertionFailedAt(k)

\* C9 (amended): the check ends the run with an assertion failure exactly
\* when the install directory exists and the launch entries hold a key for
\* which str.isdigit() is false with no entry before it whose executable
\* exists; otherwise it returns, with True at the first entry whose
\* executable exists.
C9_NonDigitKeyAbortsWhenReached ==
    \A k \in Positions :
        InstalledChecked(k) =>
            LET launch == InfoOf(k).config.launch
                world == WorldOf(k)
                exists(n) == bin_path(launch[n][2]) \in world.files
                reachedBad == \E n \in NonDigitKeys(InfoOf(k)) :
                                  \A m \in 1..(n - 1) : ~exists(m)
            IN  /\ AssertionFailedAt(k) <=> (world.is_dir /\ reachedBad)
                /\ (~world.is_dir \/ ~reachedBad) =>
                      (HasEntry(IdOf(k)) <=>
                          (world.is_dir /\ \E n \in 1..Len(launch) : exists(n)))

\* The check failed on a key that is not the first launch entry
C9_Witness ==
    \E k \in Positions :
        /\ AssertionFailedAt(k)
        /\ 1 \notin NonDigitKeys(InfoOf(k))
        /\ \E n \in 1..Len(InfoOf(k).config.launch) :
              bin_path(InfoOf(k).config.launch[n][2]) \in WorldOf(k).files

=============================================================================
